---- MODULE Spec2Model ----
(***************************************************************************)
(* The shopping application: the order routes of the Express backend      *)
(* (backend/routes/orders.js) over the Product and Order collections,     *)
(* behind the authentication middleware, and the cart held by the React   *)
(* CartProvider (contexts/CartContext).                                    *)
(*                                                                         *)
(* Spec        the order routes, each request handled in one step          *)
(* CartSpec    the cart context, driven by calls of its functions          *)
(* RestartSpec the cart context and localStorage across restarts           *)
(* ReviewSpec  the review routes of a product                              *)
(* GateSpec    the role-gated routes, called by every kind of caller       *)
(* FaultSpec   the routes when a query of the database is rejected         *)
(* CheckoutSpec the checkout page over the cart and the order route        *)
(* RaceSpec    the order routes with two requests in flight                *)
(***************************************************************************)
EXTENDS Integers, Sequences, FiniteSets, TLC

VARIABLES
    users,      \* User collection: user id -> [role]
    products,   \* Product collection: product id -> [price, stock, seller]
    orders,     \* Order collection: order id -> order document
    req,        \* the last HTTP request received: route, caller, parameters
    resp,       \* the response sent to it: [status, order]
    cartItems,  \* CartProvider state: the list of cart lines
    storage,    \* localStorage['cart']: the serialized line list
    lastCall,   \* the last call made on the cart context, and what it did
    mount,      \* CartProvider since it was mounted: the effects that ran,
                \* the state update the load effect queued, the kind of
                \* value the state holds
    calls       \* the requests the server is handling: for each handler in
                \* flight the await it stands at and what it read so far

vars == <<users, products, orders, req, resp, cartItems, storage, lastCall, mount,
          calls>>

backendVars == <<users, products, orders, req, resp, calls>>
cartVars    == <<cartItems, storage, lastCall, mount>>

-----------------------------------------------------------------------------
(* Bounds of the model *)

MaxItems == 2   \* most lines in one order request
MaxQty   == 2   \* largest quantity of an order line or of a cart call
MaxDebt  == 1   \* stock and cart quantities are followed down to -MaxDebt
MaxStock == 2   \* largest stock of a product
MaxTime  == 1   \* Date.now() returns a value in 1..MaxTime
MaxRating == 2  \* ratings of reviews are taken from 1..MaxRating

-----------------------------------------------------------------------------
(* Identifiers and request values *)

\* A JavaScript undefined: a field the request does not carry.
Undefined == "<undefined>"

\* A string that is no ObjectId: Model.findById throws a CastError on it.
BadId == "not-an-object-id"

ProductIds == {"p1", "p2", "p3"}   \* p3 is a well-formed id of no product
OrderIds   == {"o1", "o2"}
UserIds    == {"u1", "s1", "a1", "u9"}   \* u9 is the id of a deleted user

\* What a request presents as its token: none, one that jwt.verify rejects,
\* or one signed for a user id.
NoToken  == "<no token>"
BadToken == "<bad token>"
Tokens   == {NoToken, BadToken} \cup UserIds

ShipFields == {"address", "city", "phoneNumber", "postalCode", "country"}

OrderStatuses == {"Processing", "Shipped", "Delivered"}

\* deliveredAt of an order that holds none
NoDate == 0

\* The order of a response that carries none
NoOrder == "<no order>"

-----------------------------------------------------------------------------
(* Middleware *)

\* isAuthenticatedUser: 401 without a token, with a token jwt.verify rejects,
\* or when the token's user is gone; otherwise next() with req.user set.
isAuthenticatedUser(tok, us) ==
    IF tok = NoToken THEN 401
    ELSE IF tok = BadToken THEN 401
    ELSE IF tok \notin DOMAIN us THEN 401
    ELSE 0

\* authorizeRoles(...roles): 403 unless req.user.role is one of roles.
authorizeRoles_any(roles, tok, us) == 0
authorizeRoles(roles, tok, us) ==
    IF us[tok].role \notin roles THEN 403 ELSE 0

-----------------------------------------------------------------------------
(* POST /api/orders/new *)

\* body(field).notEmpty() of express-validator: an absent field reads as the
\* empty string, and the empty string is rejected.
notEmpty_presentOnly(v) == v # Undefined
notEmpty(v) == v # Undefined /\ v # ""

\* The validation chain of the route: orderItems an array of at least one
\* element, each shipping field not empty. The set of fields in error.
validationResult(body) ==
    (IF Len(body.orderItems) >= 1 THEN {} ELSE {"orderItems"})
    \cup {f \in ShipFields : ~notEmpty(body.shippingInfo[f])}

\* The price a line contributes per unit: the price of the product found.
linePrice_client(prods, item) == item.price
linePrice(prods, item) == prods[item.product].price

\* The loop that computes the total. It ends at the first line whose product
\* is not found (404) or whose id Product.findById cannot cast (it throws,
\* and the catch answers 500); status 0 when every line resolved.
RECURSIVE calculateTotal(_, _, _)
calculateTotal(items, prods, totalAmount) ==
    IF items = <<>> THEN [status |-> 0, totalAmount |-> totalAmount]
    ELSE LET item == Head(items) IN
         IF item.product = BadId
         THEN [status |-> 500, totalAmount |-> totalAmount]
         ELSE IF item.product \notin DOMAIN prods
         THEN [status |-> 404, totalAmount |-> totalAmount]
         ELSE calculateTotal(Tail(items), prods,
                  totalAmount + linePrice(prods, item) * item.quantity)

\* The document Order.create builds: the schema keeps product and quantity of
\* each line (a submitted price is no path of the schema and is dropped),
\* orderStatus takes its default, deliveredAt is not set.
orderDocument(body, totalAmount, user) ==
    [ user         |-> user,
      orderItems   |-> [i \in 1..Len(body.orderItems) |->
                           [product  |-> body.orderItems[i].product,
                            quantity |-> body.orderItems[i].quantity]],
      shippingInfo |-> body.shippingInfo,
      paymentInfo  |-> body.paymentInfo,
      totalAmount  |-> totalAmount,
      orderStatus  |-> "Processing",
      deliveredAt  |-> NoDate ]

\* required: true of a mongoose String path: set, and not the empty string.
required(v) == v # Undefined /\ v # ""

\* The validators of orderSchema run by create() and save(): quantity at
\* least 1, the shipping strings required, orderStatus one of the enum.
orderSchemaValid(doc) ==
    /\ \A i \in 1..Len(doc.orderItems) : doc.orderItems[i].quantity >= 1
    /\ \A f \in ShipFields : required(doc.shippingInfo[f])
    /\ doc.orderStatus \in OrderStatuses

\* The identifier the database gives the next order.
newOrderId(ords) ==
    IF "o1" \notin DOMAIN ords THEN "o1" ELSE "o2"

\* The products after an order was created: the handler writes none.
productsAfterCreate_reserve(prods, doc) ==
    [p \in DOMAIN prods |->
        IF \E i \in 1..Len(doc.orderItems) : doc.orderItems[i].product = p
        THEN [prods[p] EXCEPT !.stock = @ - 1] ELSE prods[p]]
productsAfterCreate(prods, doc) == prods

\* What the handler does after the lookup loop failed with `status`.
lookupFailure(status, body, tok, prods, ords) ==
    [status |-> status, order |-> NoOrder, orders |-> ords, products |-> prods]

\* The whole route: the response status and the collections it leaves.
newOrder(tok, body, us, prods, ords) ==
    LET unchanged(status) ==
            [status |-> status, order |-> NoOrder, orders |-> ords, products |-> prods]
    IN
    IF isAuthenticatedUser(tok, us) # 0 THEN unchanged(isAuthenticatedUser(tok, us))
    ELSE IF validationResult(body) # {} THEN unchanged(400)
    ELSE LET calc == calculateTotal(body.orderItems, prods, 0)
             doc  == orderDocument(body, calc.totalAmount, tok)
         IN IF calc.status # 0 THEN lookupFailure(calc.status, body, tok, prods, ords)
            ELSE IF ~orderSchemaValid(doc) THEN unchanged(500)
            ELSE [status   |-> 201,
                  order    |-> newOrderId(ords),
                  orders   |-> ords @@ (newOrderId(ords) :> doc),
                  products |-> productsAfterCreate(prods, doc)]

\* Order.create(...) and the response, the last await of the handler: the
\* document is validated and stored whatever the stock of its products, and
\* no product is written.
createOrder_reserving(body, totalAmount, tok, prods, ords) ==
    LET doc == orderDocument(body, totalAmount, tok)
        short == \E i \in 1..Len(doc.orderItems) :
                    prods[doc.orderItems[i].product].stock < doc.orderItems[i].quantity
    IN IF ~orderSchemaValid(doc) \/ short
       THEN [status |-> 500, order |-> NoOrder, orders |-> ords, products |-> prods]
       ELSE [status   |-> 201,
             order    |-> newOrderId(ords),
             orders   |-> ords @@ (newOrderId(ords) :> doc),
             products |-> productsAfterCreate_reserve(prods, doc)]
createOrder(body, totalAmount, tok, prods, ords) ==
    LET doc == orderDocument(body, totalAmount, tok)
    IN IF ~orderSchemaValid(doc)
       THEN [status |-> 500, order |-> NoOrder, orders |-> ords, products |-> prods]
       ELSE [status   |-> 201,
             order    |-> newOrderId(ords),
             orders   |-> ords @@ (newOrderId(ords) :> doc),
             products |-> productsAfterCreate(prods, doc)]

-----------------------------------------------------------------------------
(* PUT /api/orders/admin/:id *)

\* updateStock(productId, quantity): the product, when it still exists, loses
\* quantity units; save({validateBeforeSave: false}) checks nothing.
updateStock(prods, productId, quantity) ==
    IF productId \in DOMAIN prods
    THEN [prods EXCEPT ![productId].stock = @ - quantity]
    ELSE prods

\* for (const item of order.orderItems) await updateStock(...)
RECURSIVE updateStockOfItems(_, _)
updateStockOfItems(items, prods) ==
    IF items = <<>> THEN prods
    ELSE updateStockOfItems(Tail(items),
             updateStock(prods, Head(items).product, Head(items).quantity))

\* The guard on the order read: a delivered order is not touched again.
alreadyDelivered_never(order) == FALSE
alreadyDelivered(order) == order.orderStatus = "Delivered"

\* order.orderStatus = req.body.status; order.deliveredAt = ... ? Date.now() : null
withStatus_repriced(order, status, now) ==
    [order EXCEPT !.orderStatus = status,
                  !.deliveredAt = IF status = "Delivered" THEN now ELSE NoDate,
                  !.totalAmount = 0]
withStatus(order, status, now) ==
    [order EXCEPT !.orderStatus = status,
                  !.deliveredAt = IF status = "Delivered" THEN now ELSE NoDate]

\* The whole route. The stock writes are saved one by one before order.save()
\* validates the new status: when save() throws, the catch answers 500 and the
\* stock writes stay.
updateOrderStatus(tok, id, status, now, us, prods, ords) ==
    LET unchanged(code) ==
            [status |-> code, order |-> NoOrder, orders |-> ords, products |-> prods]
    IN
    IF isAuthenticatedUser(tok, us) # 0 THEN unchanged(isAuthenticatedUser(tok, us))
    ELSE IF authorizeRoles({"admin"}, tok, us) # 0 THEN unchanged(403)
    ELSE IF id = BadId THEN unchanged(500)
    ELSE IF id \notin DOMAIN ords THEN unchanged(404)
    ELSE IF alreadyDelivered(ords[id]) THEN unchanged(400)
    ELSE LET stocked == updateStockOfItems(ords[id].orderItems, prods)
             order   == withStatus(ords[id], status, now)
         IN IF ~orderSchemaValid(order)
            THEN [status |-> 500, order |-> NoOrder, orders |-> ords,
                  products |-> stocked]
            ELSE [status |-> 200, order |-> id,
                  orders |-> [ords EXCEPT ![id] = order], products |-> stocked]

-----------------------------------------------------------------------------
(* GET /api/orders/:id *)

\* populate('user', 'name email'): the owner of the order when the User
\* collection still holds it, null otherwise.
populateUser(order, us) ==
    IF order.user \in DOMAIN us THEN order.user ELSE Undefined

\* The route behind isAuthenticatedUser. order.user._id of an order whose
\* owner is gone reads a property of null: it throws and the catch answers
\* 500. The owner and an admin are answered the order, any other user 403.
getSingleOrder(tok, id, us, ords) ==
    LET none(code) == [status |-> code, order |-> NoOrder]
    IN
    IF isAuthenticatedUser(tok, us) # 0 THEN none(isAuthenticatedUser(tok, us))
    ELSE IF id = BadId THEN none(500)
    ELSE IF id \notin DOMAIN ords THEN none(404)
    ELSE IF populateUser(ords[id], us) = Undefined THEN none(500)
    ELSE IF populateUser(ords[id], us) # tok /\ us[tok].role # "admin" THEN none(403)
    ELSE [status |-> 200, order |-> id]

-----------------------------------------------------------------------------
(* PUT /api/products/:id *)

\* The ownership check of updateProduct and deleteProduct:
\* product.seller.toString() !== req.user.id && req.user.role !== 'admin'
notOwner_never(product, tok, us) == FALSE
notOwner(product, tok, us) == product.seller # tok /\ us[tok].role # "admin"

\* updateProduct behind isAuthenticatedUser and authorizeRoles('seller',
\* 'admin'): the seller of the product or an admin overwrites the fields the
\* body carries (findByIdAndUpdate; the schema sets no validator on the
\* numbers price and stock).
updateProduct(tok, id, body, us, prods) ==
    LET unchanged(code) == [status |-> code, products |-> prods]
    IN
    IF isAuthenticatedUser(tok, us) # 0 THEN unchanged(isAuthenticatedUser(tok, us))
    ELSE IF authorizeRoles({"seller", "admin"}, tok, us) # 0 THEN unchanged(403)
    ELSE IF id = BadId THEN unchanged(500)
    ELSE IF id \notin DOMAIN prods THEN unchanged(404)
    ELSE IF notOwner(prods[id], tok, us) THEN unchanged(403)
    ELSE [status |-> 200, products |-> [prods EXCEPT ![id] = body @@ prods[id]]]

-----------------------------------------------------------------------------
(* PUT /api/products/review/:id and DELETE /api/products/reviews/:id *)

\* A quotient of two numbers as JavaScript computes it, kept as the pair it
\* was computed from: sum / count. The default of ratings is 0.
Zero == [num |-> 0, den |-> 1]

\* reviews.reduce((acc, item) => item.rating + acc, 0)
RECURSIVE sumOfRatings(_)
sumOfRatings(reviews) ==
    IF reviews = <<>> THEN 0
    ELSE Head(reviews).rating + sumOfRatings(Tail(reviews))

\* reviews.reduce(...) / reviews.length
meanRating(reviews) == [num |-> sumOfRatings(reviews), den |-> Len(reviews)]

\* The review createProductReview builds: user, rating and comment; the name
\* the schema requires is not set.
reviewOf(user, rating, comment, id) ==
    [_id |-> id, user |-> user, name |-> Undefined, rating |-> rating, comment |-> comment]

\* The validators of the reviews path run by product.save(): user, name,
\* rating and comment are required of every review.
reviewsValid(reviews) ==
    \A i \in 1..Len(reviews) :
        /\ required(reviews[i].user)
        /\ required(reviews[i].name)
        /\ reviews[i].rating \in Int
        /\ required(reviews[i].comment)

\* The identifier mongoose gives the next review of a product: the first of
\* ReviewIds no review of the product carries.
ReviewIds == <<"r1", "r2", "r3", "r4">>
newReviewId(reviews) ==
    LET free == {k \in 1..Len(ReviewIds) :
                    \A i \in 1..Len(reviews) : reviews[i]._id # ReviewIds[k]}
    IN ReviewIds[CHOOSE k \in free : \A other \in free : k <= other]

\* product.reviews.find(r => r.user.toString() === req.user._id.toString())
isReviewed(reviews, user) ==
    \E i \in 1..Len(reviews) : reviews[i].user = user

\* The reviews after the handler wrote the request into them: the reviews of
\* the user take the comment and the rating, or a new review is pushed.
reviewsAfter(reviews, user, rating, comment) ==
    IF isReviewed(reviews, user)
    THEN [i \in 1..Len(reviews) |->
            IF reviews[i].user = user
            THEN [reviews[i] EXCEPT !.comment = comment, !.rating = rating]
            ELSE reviews[i]]
    ELSE Append(reviews, reviewOf(user, rating, comment, newReviewId(reviews)))

\* createProductReview behind isAuthenticatedUser. When product.save() fails
\* validation the catch answers 500 and nothing is stored.
createProductReview(tok, id, rating, comment, us, prods) ==
    LET unchanged(code) == [status |-> code, products |-> prods]
    IN
    IF isAuthenticatedUser(tok, us) # 0 THEN unchanged(isAuthenticatedUser(tok, us))
    ELSE IF id = BadId THEN unchanged(500)
    ELSE IF id \notin DOMAIN prods THEN unchanged(404)
    ELSE LET reviews == reviewsAfter(prods[id].reviews, tok, rating, comment)
             product ==
                 [prods[id] EXCEPT
                    !.reviews = reviews,
                    !.numOfReviews = IF isReviewed(prods[id].reviews, tok)
                                     THEN @ ELSE Len(reviews),
                    !.ratings = meanRating(reviews)]
         IN IF ~reviewsValid(reviews) THEN unchanged(500)
            ELSE [status |-> 200, products |-> [prods EXCEPT ![id] = product]]

\* product.reviews.filter(review => review._id.toString() !== reviewId)
reviewsWithout(reviews, reviewId) ==
    SelectSeq(reviews, LAMBDA review : review._id # reviewId)

\* The ratings deleteReview stores: 0 without reviews, the mean otherwise.
ratingsOf_mean(reviews) == meanRating(reviews)
ratingsOf(reviews) == IF Len(reviews) = 0 THEN Zero ELSE meanRating(reviews)

\* numOfReviews: reviews.length, of the list that is left.
numOfReviewsOf_stored(product, reviews) == Len(product.reviews)
numOfReviewsOf(product, reviews) == Len(reviews)

\* deleteReview behind isAuthenticatedUser: any authenticated user. Without
\* req.query.reviewId, toString() of undefined throws and the catch answers
\* 500.
deleteReview(tok, id, reviewId, us, prods) ==
    LET unchanged(code) == [status |-> code, products |-> prods]
    IN
    IF isAuthenticatedUser(tok, us) # 0 THEN unchanged(isAuthenticatedUser(tok, us))
    ELSE IF id = BadId THEN unchanged(500)
    ELSE IF id \notin DOMAIN prods THEN unchanged(404)
    ELSE IF reviewId = Undefined THEN unchanged(500)
    ELSE LET reviews == reviewsWithout(prods[id].reviews, reviewId)
         IN [status |-> 200,
             products |-> [prods EXCEPT ![id] =
                             [@ EXCEPT !.reviews = reviews,
                                       !.ratings = ratingsOf(reviews),
                                       !.numOfReviews = numOfReviewsOf(prods[id], reviews)]]]

-----------------------------------------------------------------------------
(* POST /api/products/new and DELETE /api/products/:id *)

\* The identifier the database gives the next product.
newProductId(prods) == "p3"

\* !value of a body field: an absent or empty text is falsy, and so is the
\* number 0, which stands for an absent price as well.
falsyText(v) == v \in {Undefined, ""}
falsyNumber(v) == v = 0

\* createProduct behind isAuthenticatedUser and authorizeRoles('seller',
\* 'admin'): a body without name, description, price or category, or without
\* images, is answered 400; the product is created with the caller as seller.
createProduct(tok, body, us, prods) ==
    LET unchanged(code) == [status |-> code, products |-> prods]
    IN
    IF isAuthenticatedUser(tok, us) # 0 THEN unchanged(isAuthenticatedUser(tok, us))
    ELSE IF authorizeRoles({"seller", "admin"}, tok, us) # 0 THEN unchanged(403)
    ELSE IF falsyText(body.name) \/ falsyText(body.description)
            \/ falsyNumber(body.price) \/ falsyText(body.category)
    THEN unchanged(400)
    ELSE IF Len(body.images) = 0 THEN unchanged(400)
    ELSE [status |-> 201,
          products |-> prods @@
              (newProductId(prods) :>
                  [price |-> body.price, stock |-> 0, seller |-> tok,
                   reviews |-> <<>>, ratings |-> Zero, numOfReviews |-> 0])]

\* deleteProduct behind the same middleware: the seller of the product or an
\* admin removes it.
deleteProduct(tok, id, us, prods) ==
    LET unchanged(code) == [status |-> code, products |-> prods]
    IN
    IF isAuthenticatedUser(tok, us) # 0 THEN unchanged(isAuthenticatedUser(tok, us))
    ELSE IF authorizeRoles({"seller", "admin"}, tok, us) # 0 THEN unchanged(403)
    ELSE IF id = BadId THEN unchanged(500)
    ELSE IF id \notin DOMAIN prods THEN unchanged(404)
    ELSE IF notOwner(prods[id], tok, us) THEN unchanged(403)
    ELSE [status |-> 200,
          products |-> [p \in DOMAIN prods \ {id} |-> prods[p]]]

-----------------------------------------------------------------------------
(* PUT and DELETE /api/users/admin/:id, GET /api/users/admin/all,
   GET /api/orders/admin/all *)

Roles == {"user", "seller", "admin"}

\* PUT /api/users/admin/:id behind authorizeRoles('admin'): a role outside
\* Roles is answered 400, an unknown user 404; the body is written into the
\* user.
updateUser(tok, id, body, us) ==
    LET unchanged(code) == [status |-> code, users |-> us]
    IN
    IF isAuthenticatedUser(tok, us) # 0 THEN unchanged(isAuthenticatedUser(tok, us))
    ELSE IF authorizeRoles({"admin"}, tok, us) # 0 THEN unchanged(403)
    ELSE IF body.role \notin Roles THEN unchanged(400)
    ELSE IF id = BadId THEN unchanged(500)
    ELSE IF id \notin DOMAIN us THEN unchanged(404)
    ELSE [status |-> 200, users |-> [us EXCEPT ![id] = body @@ us[id]]]

\* DELETE /api/users/admin/:id behind authorizeRoles('admin'): an admin
\* deletes any user but themselves.
deleteUser(tok, id, us) ==
    LET unchanged(code) == [status |-> code, users |-> us]
    IN
    IF isAuthenticatedUser(tok, us) # 0 THEN unchanged(isAuthenticatedUser(tok, us))
    ELSE IF authorizeRoles({"admin"}, tok, us) # 0 THEN unchanged(403)
    ELSE IF id = BadId THEN unchanged(500)
    ELSE IF id \notin DOMAIN us THEN unchanged(404)
    ELSE IF id = tok THEN unchanged(400)
    ELSE [status |-> 200, users |-> [u \in DOMAIN us \ {id} |-> us[u]]]

\* GET /api/orders/admin/all and GET /api/users/admin/all behind
\* authorizeRoles('admin'): they read, and answer 200.
adminList(tok, us) ==
    IF isAuthenticatedUser(tok, us) # 0 THEN isAuthenticatedUser(tok, us)
    ELSE IF authorizeRoles({"admin"}, tok, us) # 0 THEN 403
    ELSE 200

-----------------------------------------------------------------------------
(* The catch block of the route handlers *)

\* catch (error) { res.status(500).json({ message: '...', error: error.message }) }
\* The response carries the fixed message of the route and the message of the
\* error that was thrown.
catchResponse(message, error) ==
    [status |-> 500, message |-> message, error |-> error.message]

-----------------------------------------------------------------------------
(* CartProvider: the cart context of the frontend *)

\* prevItems.find(item => item._id === productId): the place of the line of
\* the product, 0 when the cart holds none.
findItem(items, productId) ==
    IF \E i \in 1..Len(items) : items[i]._id = productId
    THEN CHOOSE i \in 1..Len(items) :
            /\ items[i]._id = productId
            /\ \A j \in 1..(i - 1) : items[j]._id # productId
    ELSE 0

\* product.images[0]?.url || product.images[0], '' without images
firstImage(product) ==
    IF Len(product.images) > 0 THEN Head(product.images) ELSE ""

\* The line addToCart builds for a product the cart does not hold.
newItem_atLeastOne(product, quantity) ==
    [_id      |-> product._id,
     name     |-> product.name,
     price    |-> product.price,
     image    |-> firstImage(product),
     stock    |-> product.stock,
     seller   |-> product.seller,
     quantity |-> IF quantity < 1 THEN 1 ELSE quantity]
newItem(product, quantity) ==
    [_id      |-> product._id,
     name     |-> product.name,
     price    |-> product.price,
     image    |-> firstImage(product),
     stock    |-> product.stock,
     seller   |-> product.seller,
     quantity |-> quantity]

\* The stock addToCart holds the raised quantity against: that of the product
\* passed to the call.
stockLimit_ofLine(product, item) == item.stock
stockLimit(product, item) == product.stock

\* The update function addToCart hands to setCartItems.
addToCart_append(prevItems, product, quantity) ==
    Append(prevItems, newItem(product, quantity))
addToCart(prevItems, product, quantity) ==
    IF findItem(prevItems, product._id) # 0
    THEN LET updatedItems ==
                 [i \in 1..Len(prevItems) |->
                     IF prevItems[i]._id = product._id
                     THEN [prevItems[i] EXCEPT !.quantity = @ + quantity]
                     ELSE prevItems[i]]
             updatedItem == updatedItems[findItem(updatedItems, product._id)]
         IN IF updatedItem.quantity > stockLimit(product, updatedItem)
            THEN prevItems
            ELSE updatedItems
    ELSE Append(prevItems, newItem(product, quantity))

\* prevItems.filter(item => item._id !== productId)
removeFromCart_inverted(prevItems, productId) ==
    SelectSeq(prevItems, LAMBDA item : item._id = productId)
removeFromCart(prevItems, productId) ==
    SelectSeq(prevItems, LAMBDA item : item._id # productId)

\* The line updateQuantity leaves in the place of `item`.
updatedLine(item, productId, quantity) ==
    IF item._id = productId
    THEN IF quantity > item.stock THEN item
         ELSE [item EXCEPT !.quantity = quantity]
    ELSE item

\* updateQuantity: a quantity of 0 or less removes the line; otherwise the
\* lines are mapped.
updateQuantity(prevItems, productId, quantity) ==
    IF quantity <= 0 THEN removeFromCart(prevItems, productId)
    ELSE [i \in 1..Len(prevItems) |-> updatedLine(prevItems[i], productId, quantity)]

\* clearCart: setCartItems([])
clearCart(prevItems) == <<>>

\* cartItems.reduce((total, item) => total + item.price * item.quantity, 0)
RECURSIVE getCartTotal_ofPrices(_)
getCartTotal_ofPrices(items) ==
    IF items = <<>> THEN 0
    ELSE getCartTotal_ofPrices(SubSeq(items, 1, Len(items) - 1)) + items[Len(items)].price
RECURSIVE getCartTotal(_)
getCartTotal(items) ==
    IF items = <<>> THEN 0
    ELSE getCartTotal(SubSeq(items, 1, Len(items) - 1))
         + items[Len(items)].price * items[Len(items)].quantity

\* cartItems.reduce((count, item) => count + item.quantity, 0)
RECURSIVE getCartCount(_)
getCartCount(items) ==
    IF items = <<>> THEN 0
    ELSE getCartCount(SubSeq(items, 1, Len(items) - 1)) + items[Len(items)].quantity

\* cartItems.some(item => item._id === productId)
isInCart(items, productId) ==
    \E i \in 1..Len(items) : items[i]._id = productId

\* The quantity of the line of the product, 0 when the cart holds none.
getItemQuantity(items, productId) ==
    IF isInCart(items, productId)
    THEN items[findItem(items, productId)].quantity
    ELSE 0

\* JSON.stringify of a cart line: the list of its keys with their values, in
\* the order the line was built with.
stringifyLine(item) ==
    << <<"_id", item._id>>, <<"name", item.name>>,
       <<"price", item.price>>, <<"image", item.image>>,
       <<"stock", item.stock>>, <<"seller", item.seller>>,
       <<"quantity", item.quantity>> >>

\* JSON.stringify(cartItems) of a list of lines: the text of an array.
JSONstringify(items) ==
    [json |-> "array", lines |-> [i \in 1..Len(items) |-> stringifyLine(items[i])]]

\* Texts localStorage can hold that are no serialized list: one JSON.parse
\* throws on, the empty string, and the texts of null, of an object and of a
\* number.
Garbage    == [json |-> "garbage"]
EmptyText  == [json |-> "empty"]
ForeignTexts == {Garbage, EmptyText, [json |-> "null"], [json |-> "object"], [json |-> "number"]}

\* JSON.stringify of whatever the state holds: a list of lines, or the value a
\* foreign text was parsed to.
stringifyState_initial(holds, items) == JSONstringify(<<>>)
stringifyState(holds, items) ==
    IF holds = "array" THEN JSONstringify(items) ELSE [json |-> holds]

\* The object a serialized line is parsed to.
parseLine(pairs) ==
    [key \in {pairs[j][1] : j \in 1..Len(pairs)} |->
        pairs[CHOOSE j \in 1..Len(pairs) : pairs[j][1] = key][2]]

\* JSON.parse(savedCart): it throws on a text that is no JSON, and returns the
\* value of any other text, list or not.
JSONparse(text) ==
    IF text = Garbage THEN [ok |-> FALSE]
    ELSE IF text.json = "array"
    THEN [ok |-> TRUE, holds |-> "array",
          items |-> [i \in 1..Len(text.lines) |-> parseLine(text.lines[i])]]
    ELSE [ok |-> TRUE, holds |-> text.json, items |-> <<>>]

-----------------------------------------------------------------------------
(* Checkout: handleSubmit of the checkout page *)

\* The fields of the form: those of the order schema, and two more.
FormFields == ShipFields \cup {"fullName", "state"}

\* value.trim() of a field of the form; " " is a text of blanks.
trim(value) == IF value = " " THEN "" ELSE value

\* The loop over Object.entries(shippingInfo): the fields left empty or blank.
blankFields(shippingInfo) ==
    {f \in DOMAIN shippingInfo : trim(shippingInfo[f]) = ""}

\* The body of the POST: a line per cart line with its product, quantity and
\* price, the form, and getCartTotal().
checkoutBody(items, shippingInfo) ==
    [orderItems   |-> [i \in 1..Len(items) |->
                          [product  |-> items[i]._id,
                           quantity |-> items[i].quantity,
                           price    |-> items[i].price]],
     shippingInfo |-> shippingInfo,
     paymentInfo  |-> "succeeded",
     totalAmount  |-> getCartTotal(items)]

\* What handleSubmit does before it awaits the POST: "invalid" and "empty" end
\* the handler, "awaiting" sends the request.
beforeOrder(items, shippingInfo) ==
    IF blankFields(shippingInfo) # {} THEN "invalid"
    ELSE IF Len(items) = 0 THEN "empty"
    ELSE "awaiting"

\* The cart after the POST settled: axios resolves on a 2xx status and
\* clearCart() follows; it rejects on any other, and the catch clears nothing.
afterOrder_always(status, items) == clearCart(items)
afterOrder(status, items) ==
    IF status \in 200..299 THEN clearCart(items) ELSE items

-----------------------------------------------------------------------------
(* The requests the model sends *)

GoodShipping == [f \in ShipFields |-> "a"]

\* The valid shipping record, and each record with one field absent or empty.
Shippings ==
    {GoodShipping}
    \cup {[GoodShipping EXCEPT ![f] = v] : f \in ShipFields, v \in {Undefined, ""}}

\* What the client submits as the price of a line and as the total: 1 is no
\* price of the catalog, 2 is one.
StalePrice == 1
ClientPrices == {StalePrice, 2}

\* Order lines: an existing product or a well-formed id of no product, with a
\* valid quantity.
OrderLines(price) ==
    [product : ProductIds, quantity : 1..MaxQty, price : {price}]

OrderLine(product, quantity, price) ==
    [product |-> product, quantity |-> quantity, price |-> price]

\* The lists of up to n elements of S.
RECURSIVE LineLists(_, _)
LineLists(S, n) ==
    IF n = 0 THEN {<<>>}
    ELSE LET shorter == LineLists(S, n - 1)
         IN shorter \cup
            {Append(q, x) : q \in {r \in shorter : Len(r) = n - 1}, x \in S}

\* No product is named twice: the checkout page sends one line per cart line,
\* and the cart holds a product once.
NoRepeat(items) ==
    \A i, j \in 1..Len(items) : i # j => items[i].product # items[j].product

\* Line lists of a request: every list of up to MaxItems lines, a list whose
\* line has quantity 0 (no valid quantity of the schema), and lists with a
\* malformed id before and after a good line and a line of no product.
ItemLists(price) ==
    {items \in LineLists(OrderLines(price), MaxItems) : NoRepeat(items)}
    \cup {<<OrderLine("p1", 0, price)>>,
          <<OrderLine(BadId, 1, price)>>,
          <<OrderLine("p1", 1, price), OrderLine(BadId, 1, price)>>,
          <<OrderLine(BadId, 1, price), OrderLine("p1", 1, price)>>,
          <<OrderLine("p3", 1, price), OrderLine(BadId, 1, price)>>,
          <<OrderLine(BadId, 1, price), OrderLine("p3", 1, price)>>}

OrderBody(items, shipping, price) ==
    [orderItems   |-> items,
     shippingInfo |-> shipping,
     paymentInfo  |-> "succeeded",
     totalAmount  |-> price]

\* Request bodies: with valid shipping every line list at the stale price and
\* the lists of one line at each price, with invalid shipping a few lists.
OrderBodies ==
    {OrderBody(items, GoodShipping, StalePrice) : items \in ItemLists(StalePrice)}
    \cup UNION {{OrderBody(items, GoodShipping, price) :
                    items \in {l \in ItemLists(price) : Len(l) = 1}} :
                 price \in ClientPrices}
    \cup {OrderBody(<<OrderLine("p1", 1, StalePrice)>>, shipping, StalePrice) :
            shipping \in Shippings}
    \cup {OrderBody(items, [GoodShipping EXCEPT !["city"] = ""], StalePrice) :
            items \in {<<>>, <<OrderLine("p3", 1, StalePrice)>>}}

\* The bodies of a product update: a new price.
Prices == {2, 3}
ProductBodies == {[price |-> x] : x \in Prices}

\* req.body.status of a status update: a status, a word outside the enum, or
\* nothing.
StatusInputs == OrderStatuses \cup {"Cancelled", Undefined}

-----------------------------------------------------------------------------
(* The state machine *)

\* CartProvider once its effects have run and no update is queued, holding a
\* list.
NoUpdate == [queued |-> FALSE]
Mounted == [phase |-> "ready", holds |-> "array", update |-> NoUpdate]

InitUsers ==
    [u \in {"u1", "s1", "a1"} |->
        [role |-> CASE u = "u1" -> "user" [] u = "s1" -> "seller" [] OTHER -> "admin"]]

InitProducts ==
    [p \in {"p1", "p2"} |->
        IF p = "p1" THEN [price |-> 2, stock |-> 1, seller |-> "s1",
                          reviews |-> <<>>, ratings |-> Zero, numOfReviews |-> 0]
                    ELSE [price |-> 3, stock |-> MaxStock, seller |-> "s1",
                          reviews |-> <<>>, ratings |-> Zero, numOfReviews |-> 0]]

NoOrders == [o \in {} |-> 0]

\* The handlers of the server, all of them idle.
Handlers == {"h1", "h2"}
Idle == [pc |-> "idle"]
NoCalls == [h \in Handlers |-> Idle]

\* The order identifiers the database hands out under Spec.
SpecOrderIds == {"o1"}

Init ==
    /\ users = InitUsers
    /\ products = InitProducts
    /\ orders = NoOrders
    /\ req = [op |-> "none"]
    /\ resp = [status |-> 0, order |-> NoOrder]
    /\ cartItems = <<>>
    /\ storage = [set |-> TRUE, text |-> JSONstringify(<<>>)]
    /\ lastCall = [op |-> "none"]
    /\ mount = Mounted
    /\ calls = NoCalls

\* What the model keeps of an order request: the shipping fields it leaves out
\* or empty, and the place and the identifier of the first line whose product
\* identifier names no product (0 and "" when every line names one).
emptyFields(body) ==
    {f \in ShipFields : body.shippingInfo[f] \in {Undefined, ""}}

badLines(items, prods) ==
    {i \in 1..Len(items) : items[i].product \notin DOMAIN prods}

firstBadLine(items, prods) ==
    IF badLines(items, prods) = {} THEN 0
    ELSE CHOOSE i \in badLines(items, prods) : \A j \in badLines(items, prods) : i <= j

firstBadId(items, prods) ==
    IF badLines(items, prods) = {} THEN ""
    ELSE items[firstBadLine(items, prods)].product

\* POST /api/orders/new. A request that would store an order when the model's
\* order identifiers are used up is not sent.
NewOrder(tok, body) ==
    \E r \in {newOrder(tok, body, users, products, orders)} :
    /\ r.orders # orders => newOrderId(orders) \in SpecOrderIds \ DOMAIN orders
    /\ orders' = r.orders
    /\ products' = r.products
    /\ req' = [op |-> "newOrder", tok |-> tok,
               emptyFields |-> emptyFields(body),
               firstBadLine |-> firstBadLine(body.orderItems, products),
               firstBadId |-> firstBadId(body.orderItems, products)]
    /\ resp' = [status |-> r.status, order |-> r.order]
    /\ UNCHANGED <<users, cartVars, calls>>

\* PUT /api/orders/admin/:id. A request that would take a stock below
\* -MaxDebt is not sent.
UpdateOrderStatus(tok, id, status, now) ==
    \E r \in {updateOrderStatus(tok, id, status, now, users, products, orders)} :
    /\ \A p \in DOMAIN r.products : r.products[p].stock >= -MaxDebt
    /\ orders' = r.orders
    /\ products' = r.products
    /\ req' = [op |-> "updateOrderStatus", tok |-> tok, id |-> id, status |-> status]
    /\ resp' = [status |-> r.status, order |-> r.order]
    /\ UNCHANGED <<users, cartVars, calls>>

\* PUT /api/products/:id
UpdateProduct(tok, id, body) ==
    \E r \in {updateProduct(tok, id, body, users, products)} :
    /\ products' = r.products
    /\ req' = [op |-> "updateProduct", tok |-> tok, id |-> id]
    /\ resp' = [status |-> r.status, order |-> NoOrder]
    /\ UNCHANGED <<users, orders, cartVars, calls>>

\* The callers no route lets in: no token, a bad token, a deleted user.
Strangers == {NoToken, BadToken, "u9"}

\* One body of each kind, for the requests the middleware stops.
SomeOrderBody ==
    OrderBody(<<OrderLine("p1", 1, 1)>>, GoodShipping, 1)

Next ==
    \/ \E body \in OrderBodies : NewOrder("u1", body)
    \/ \E tok \in Strangers : NewOrder(tok, SomeOrderBody)
    \/ \E status \in StatusInputs, now \in 1..MaxTime :
            UpdateOrderStatus("a1", "o1", status, now)
    \/ \E id \in {"o2", BadId} : UpdateOrderStatus("a1", id, "Shipped", 1)
    \/ \E tok \in Strangers \cup {"u1", "s1"} :
            UpdateOrderStatus(tok, "o1", "Shipped", 1)
    \/ \E body \in ProductBodies : UpdateProduct("s1", "p1", body)
    \/ \E id \in {"p3", BadId} : UpdateProduct("s1", id, [price |-> 3])
    \/ \E tok \in Strangers \cup {"u1"} : UpdateProduct(tok, "p1", [price |-> 3])

Spec == Init /\ [][Next]_vars

-----------------------------------------------------------------------------
(* Properties of the order routes, under Spec *)

\* The sum over the lines of catalog price x quantity.
RECURSIVE catalogTotal(_, _)
catalogTotal(items, prods) ==
    IF items = <<>> THEN 0
    ELSE prods[Head(items).product].price * Head(items).quantity
         + catalogTotal(Tail(items), prods)

\* C1: every successful order creation stores a new order whose totalAmount
\* is the sum over its lines of the product's catalog price at that moment
\* times the line's quantity, whatever price and total the request submitted.
C1_TotalFromCatalog ==
    [][(req'.op = "newOrder" /\ resp'.status = 201) =>
        /\ resp'.order \in DOMAIN orders' \ DOMAIN orders
        /\ orders'[resp'.order].totalAmount
             = catalogTotal(orders'[resp'.order].orderItems, products)]_vars

\* An order of two lines was just created, after the price of p1 was changed,
\* at a total that is not the one the client's stale prices give.
C1_Witness ==
    /\ req.op = "newOrder" /\ resp.status = 201
    /\ Len(orders[resp.order].orderItems) = 2
    /\ products["p1"].price # InitProducts["p1"].price
    /\ orders[resp.order].totalAmount > 2 * StalePrice * MaxQty

\* An authenticated order request with valid shipping fields, one of whose
\* lines names no product.
UnresolvableLine(r) ==
    /\ r.op = "newOrder"
    /\ r.tok \in DOMAIN users
    /\ r.emptyFields = {}
    /\ r.firstBadLine # 0

\* C2 as stated: a request with a line whose product identifier resolves to no
\* product fails with 404 and stores no order, wherever the line stands.
C2_NotFound ==
    [][UnresolvableLine(req') => (resp'.status = 404 /\ orders' = orders)]_vars

\* C3: an order request with a shipping field absent or empty stores no
\* order, and is answered 400 when its caller is authenticated.
C3_ShippingRequired ==
    [][(req'.op = "newOrder" /\ req'.emptyFields # {}) =>
        /\ orders' = orders
        /\ req'.tok \in DOMAIN users => resp'.status = 400]_vars

\* A request without a usable city was answered 400.
C3_Witness ==
    /\ req.op = "newOrder" /\ req.emptyFields = {"city"}
    /\ resp.status = 400

\* C4: a status update on a delivered order is refused (400 for an admin, 401
\* or 403 from the middleware otherwise) and changes no order and no product.
C4_DeliveredIsFinal ==
    [][(/\ req'.op = "updateOrderStatus"
        /\ req'.id \in DOMAIN orders
        /\ orders[req'.id].orderStatus = "Delivered") =>
        /\ resp'.status = IF req'.tok = "a1" THEN 400
                          ELSE IF req'.tok \in DOMAIN users THEN 403 ELSE 401
        /\ orders' = orders
        /\ products' = products]_vars

\* An admin's update of a delivered order was answered 400.
C4_Witness ==
    /\ req.op = "updateOrderStatus" /\ req.tok = "a1"
    /\ req.id \in DOMAIN orders
    /\ orders[req.id].orderStatus = "Delivered"
    /\ orders[req.id].deliveredAt # NoDate
    /\ resp.status = 400

statusRank(status) ==
    CASE status = "Processing" -> 1 [] status = "Shipped" -> 2 [] OTHER -> 3

\* C5 as stated: the status of an order never moves backward.
C5_ForwardOnly ==
    [][\A o \in DOMAIN orders :
          statusRank(orders'[o].orderStatus) >= statusRank(orders[o].orderStatus)]_vars

\* The products named by the lines of an order.
orderedProducts(order) ==
    {order.orderItems[i].product : i \in 1..Len(order.orderItems)}

\* C6: order creation changes no product; a step that changes the stock of a
\* product is an admin's status update of an order that holds the product.
C6_StockOnlyOnStatusUpdate ==
    [][/\ req'.op = "newOrder" => products' = products
       /\ \A p \in DOMAIN products :
            products'[p].stock # products[p].stock =>
                /\ req'.op = "updateOrderStatus"
                /\ req'.tok \in DOMAIN users /\ users[req'.tok].role = "admin"
                /\ req'.id \in DOMAIN orders
                /\ p \in orderedProducts(orders[req'.id])]_vars

\* An order was just created and every stock is what it was at the start.
C6_Witness ==
    /\ req.op = "newOrder" /\ resp.status = 201
    /\ \A p \in DOMAIN products : products[p].stock = InitProducts[p].stock

\* C22 as stated: the stock of every product is a non-negative integer in
\* every state reached by order creations and status updates.
C22_StockNonNegative ==
    \A p \in DOMAIN products : products[p].stock \in Nat

\* What an order keeps from its creation on: its lines, its total, its
\* shipping and payment fields and its owner.
createdPart(order) ==
    <<order.orderItems, order.totalAmount, order.shippingInfo,
      order.paymentInfo, order.user>>

RECURSIVE quantityOf(_, _)
quantityOf(items, p) ==
    IF items = <<>> THEN 0
    ELSE (IF Head(items).product = p THEN Head(items).quantity ELSE 0)
         + quantityOf(Tail(items), p)

\* C28 as stated: whatever status updates an order receives, the stock of a
\* product it holds goes down on its account by no more than the quantity of
\* its line. Under Spec one order is stored and status updates are the only
\* writes of a stock (C6), so what a stock lost since the start it lost on
\* account of that order.
C28_ReducedOnce ==
    \A o \in DOMAIN orders :
        \A p \in orderedProducts(orders[o]) \cap DOMAIN products :
            InitProducts[p].stock - products[p].stock
                <= quantityOf(orders[o].orderItems, p)

\* C29 as stated: a status update that is answered with a failure leaves every
\* stock and every order as they were.
C29_FailureChangesNothing ==
    [][(req'.op = "updateOrderStatus" /\ resp'.status # 200) =>
        (products' = products /\ orders' = orders)]_vars

-----------------------------------------------------------------------------
(* The cart context driven by its callers, CartSpec. lastCall keeps the call,
   whether the cart held the product before it, and at which quantity. *)

\* A product as the pages hold it after a catalog read: a product of the
\* catalog, at a stock the catalog can show.
productObject(id, stock) ==
    [_id    |-> id,
     name   |-> id,
     price  |-> InitProducts[id].price,
     images |-> <<>>,
     stock  |-> stock,
     seller |-> InitProducts[id].seller]

\* The stocks the pages are shown: the lowest and the highest of the model,
\* none, and one unit.
CatalogStocks == {-MaxDebt, 0, 1, MaxStock}

ProductObjects ==
    {productObject(id, stock) : id \in DOMAIN InitProducts, stock \in CatalogStocks}

\* The quantities the model passes to addToCart and updateQuantity.
QuantityArgs == {-1, 0, 1, MaxQty}

\* The effect that follows every change of cartItems:
\* localStorage.setItem('cart', JSON.stringify(cartItems))
saveCart(items) == [set |-> TRUE, text |-> JSONstringify(items)]

\* addToCart(product, quantity). A call that would take a quantity below
\* -MaxDebt is not made.
AddToCart(product, quantity) ==
    \E items \in {addToCart(cartItems, product, quantity)} :
    /\ \A i \in 1..Len(items) : items[i].quantity >= -MaxDebt
    /\ cartItems' = items
    /\ storage' = saveCart(items)
    /\ lastCall' = [op |-> "addToCart", id |-> product._id,
                    quantity |-> quantity, stock |-> product.stock,
                    held |-> isInCart(cartItems, product._id),
                    before |-> getItemQuantity(cartItems, product._id)]
    /\ UNCHANGED <<backendVars, mount>>

\* removeFromCart(productId)
RemoveFromCart(productId) ==
    /\ cartItems' = removeFromCart(cartItems, productId)
    /\ storage' = saveCart(cartItems')
    /\ lastCall' = [op |-> "removeFromCart", id |-> productId,
                    held |-> isInCart(cartItems, productId),
                    before |-> getItemQuantity(cartItems, productId)]
    /\ UNCHANGED <<backendVars, mount>>

\* updateQuantity(productId, quantity)
UpdateQuantity(productId, quantity) ==
    /\ cartItems' = updateQuantity(cartItems, productId, quantity)
    /\ storage' = saveCart(cartItems')
    /\ lastCall' = [op |-> "updateQuantity", id |-> productId, quantity |-> quantity,
                    held |-> isInCart(cartItems, productId),
                    before |-> getItemQuantity(cartItems, productId)]
    /\ UNCHANGED <<backendVars, mount>>

\* clearCart()
ClearCart ==
    /\ cartItems' = clearCart(cartItems)
    /\ storage' = saveCart(cartItems')
    /\ lastCall' = [op |-> "clearCart"]
    /\ UNCHANGED <<backendVars, mount>>

CartNext ==
    \/ \E product \in ProductObjects, quantity \in QuantityArgs :
            AddToCart(product, quantity)
    \/ \E productId \in ProductIds : RemoveFromCart(productId)
    \/ \E productId \in ProductIds, quantity \in QuantityArgs :
            UpdateQuantity(productId, quantity)
    \/ ClearCart

CartSpec == Init /\ [][CartNext]_vars

-----------------------------------------------------------------------------
(* Properties of the cart, under CartSpec *)

\* C7 as stated: no line holds more than the stock recorded on it.
C7_QuantityWithinStock ==
    \A i \in 1..Len(cartItems) : cartItems[i].quantity <= cartItems[i].stock

\* The cart with the quantity of line i set to q, every other line as it was.
withQuantity(items, i, q) ==
    [j \in 1..Len(items) |->
        IF j = i THEN [_id |-> items[j]._id, name |-> items[j].name,
                       price |-> items[j].price, image |-> items[j].image,
                       stock |-> items[j].stock, seller |-> items[j].seller,
                       quantity |-> q]
        ELSE items[j]]

C9_AboveStockNoChange ==
    [][lastCall'.op = "updateQuantity" =>
        \A i \in 1..Len(cartItems) :
            (cartItems[i]._id = lastCall'.id /\ lastCall'.quantity > cartItems[i].stock)
                => cartItems' = cartItems]_vars

\* The lines of other products, in their order.
RECURSIVE otherLines(_, _)
otherLines(items, productId) ==
    IF items = <<>> THEN <<>>
    ELSE IF Head(items)._id = productId THEN otherLines(Tail(items), productId)
    ELSE <<Head(items)>> \o otherLines(Tail(items), productId)

\* C10: updateQuantity with a quantity of 0 or less leaves exactly the lines
\* of the other products; with a quantity from 1 to the stock recorded on the
\* line it sets the quantity of that line and changes no other.
C10_UpdateQuantity ==
    [][lastCall'.op = "updateQuantity" =>
        IF lastCall'.quantity <= 0
        THEN cartItems' = otherLines(cartItems, lastCall'.id)
        ELSE \A i \in 1..Len(cartItems) :
                (cartItems[i]._id = lastCall'.id
                    /\ lastCall'.quantity <= cartItems[i].stock)
                => cartItems' = withQuantity(cartItems, i, lastCall'.quantity)]_vars

\* updateQuantity with quantity 0 just removed one of two lines.
C10_Witness ==
    /\ lastCall.op = "updateQuantity" /\ lastCall.held
    /\ lastCall.quantity = 0
    /\ Len(cartItems) = 1
    /\ cartItems[1]._id # lastCall.id

\* The sum over the lines of price x quantity, from the first line on.
RECURSIVE sumOfLines(_)
sumOfLines(items) ==
    IF items = <<>> THEN 0
    ELSE Head(items).price * Head(items).quantity + sumOfLines(Tail(items))

\* C11: in every cart state getCartTotal is the sum over the lines of price x
\* quantity, and removeFromCart lowers it by price x quantity of the line it
\* removes.
C11_TotalIsSumOfLines ==
    /\ [](getCartTotal(cartItems) = sumOfLines(cartItems))
    /\ [][lastCall'.op = "removeFromCart" =>
            \A i \in 1..Len(cartItems) :
                cartItems[i]._id = lastCall'.id =>
                    getCartTotal(cartItems')
                      = getCartTotal(cartItems)
                        - cartItems[i].price * cartItems[i].quantity]_vars

\* removeFromCart just removed a line of quantity 2 from a cart of two lines,
\* and the line left has a total of its own.
C11_Witness ==
    /\ lastCall.op = "removeFromCart" /\ lastCall.held
    /\ lastCall.before = 2
    /\ Len(cartItems) = 1
    /\ cartItems[1]._id # lastCall.id
    /\ getCartTotal(cartItems) > 0

\* C12: addToCart with a quantity of 0 or less never leaves a cart whose
\* getCartCount is greater than before the call.
C12_NoIncreaseByNonPositive ==
    [][(lastCall'.op = "addToCart" /\ lastCall'.quantity <= 0) =>
        getCartCount(cartItems') <= getCartCount(cartItems)]_vars

\* addToCart with quantity -1 just took the line of a product from 2 to 1.
C12_Witness ==
    /\ lastCall.op = "addToCart" /\ lastCall.held
    /\ lastCall.quantity = -1 /\ lastCall.before = 2
    /\ getItemQuantity(cartItems, lastCall.id) = 1
    /\ getCartCount(cartItems) >= 1

\* C13 as stated: the quantity of every line of the cart is at least 1.
C13_PositiveQuantities ==
    \A i \in 1..Len(cartItems) : cartItems[i].quantity >= 1

\* C27: in every cart reached from the empty cart by addToCart,
\* updateQuantity, removeFromCart and clearCart, no two lines carry the same
\* product identifier.
C27_OneLinePerProduct ==
    \A i, j \in 1..Len(cartItems) :
        cartItems[i]._id = cartItems[j]._id => i = j

\* addToCart was just called for a product the cart held, in a cart of two
\* lines, and raised the quantity of its line.
C27_Witness ==
    /\ lastCall.op = "addToCart" /\ lastCall.held
    /\ Len(cartItems) = 2
    /\ getItemQuantity(cartItems, lastCall.id) > lastCall.before

-----------------------------------------------------------------------------
(* The cart across restarts of the application, RestartSpec. CartProvider is
   mounted with an empty list; its load effect and its save effect run in
   that order; the update the load effect queued is rendered, and the save
   effect runs again for the new list. *)

\* What localStorage.getItem('cart') finds that the application did not write:
\* a foreign text, or no value.
NoValue == [set |-> FALSE, text |-> EmptyText]
ForeignValues == {[set |-> TRUE, text |-> text] : text \in ForeignTexts} \cup {NoValue}

\* The products and quantities of the cart calls made between restarts.
RestartProducts == {productObject(id, MaxStock) : id \in DOMAIN InitProducts}
RestartQuantities == {0, 1, MaxQty}

\* The provider takes cart calls once its effects have run, while its state
\* holds a list.
Ready == mount.phase = "ready" /\ mount.holds = "array"

\* Another script, or the user, writes or removes the 'cart' key.
StoreForeign(value) ==
    /\ mount.phase = "ready"
    /\ storage' = value
    /\ lastCall' = [op |-> "storeForeign"]
    /\ UNCHANGED <<backendVars, cartItems, mount>>

\* The page is loaded again: useState([]). lastCall keeps the list held and
\* the value stored when the application stopped.
Restart ==
    /\ mount.phase \in {"ready", "crashed"}
    /\ cartItems' = <<>>
    /\ mount' = [phase |-> "mounted", holds |-> "array", update |-> NoUpdate]
    /\ lastCall' = [op |-> "restart", holds |-> mount.holds, before |-> cartItems,
                    found |-> storage]
    /\ UNCHANGED <<backendVars, storage>>

\* The load effect: a value that is set and not the empty string is parsed and
\* queued as the next state; when JSON.parse throws, the key is removed.
LoadEffect ==
    /\ mount.phase = "mounted"
    /\ IF storage.set /\ storage.text # EmptyText
       THEN \E parsed \in {JSONparse(storage.text)} :
            IF parsed.ok
            THEN /\ mount' = [mount EXCEPT !.phase = "loaded",
                                !.update = [queued |-> TRUE, holds |-> parsed.holds,
                                            items |-> parsed.items]]
                 /\ storage' = storage
            ELSE /\ mount' = [mount EXCEPT !.phase = "loaded"]
                 /\ storage' = NoValue
       ELSE /\ mount' = [mount EXCEPT !.phase = "loaded"]
            /\ storage' = storage
    /\ UNCHANGED <<backendVars, cartItems, lastCall>>

\* The save effect, after the first render and after the render of the
\* queued update: localStorage.setItem('cart', JSON.stringify(cartItems)).
SaveEffect ==
    /\ mount.phase \in {"loaded", "rendered"}
    /\ storage' = [set |-> TRUE, text |-> stringifyState(mount.holds, cartItems)]
    /\ mount' = [mount EXCEPT !.phase =
                    IF mount.phase = "loaded" /\ mount.update.queued
                    THEN "saved" ELSE "ready"]
    /\ UNCHANGED <<backendVars, cartItems, lastCall>>

\* The render of the queued update. A value that is no list makes every
\* consumer that reads the list during render throw (cartItems.some,
\* cartItems.reduce, cartItems.map are not functions): on a page with such a
\* consumer the render fails and nothing is committed, on another page the
\* value is committed.
Render ==
    /\ mount.phase = "saved"
    /\ \/ /\ cartItems' = mount.update.items
          /\ mount' = [phase |-> "rendered", holds |-> mount.update.holds,
                       update |-> NoUpdate]
       \/ /\ mount.update.holds # "array"
          /\ cartItems' = cartItems
          /\ mount' = [phase |-> "crashed", holds |-> mount.holds, update |-> NoUpdate]
    /\ UNCHANGED <<backendVars, storage, lastCall>>

RestartNext ==
    \/ \E product \in RestartProducts, quantity \in RestartQuantities :
            Ready /\ AddToCart(product, quantity)
    \/ \E productId \in DOMAIN InitProducts : Ready /\ RemoveFromCart(productId)
    \/ \E productId \in DOMAIN InitProducts, quantity \in RestartQuantities :
            Ready /\ UpdateQuantity(productId, quantity)
    \/ Ready /\ ClearCart
    \/ \E value \in ForeignValues : StoreForeign(value)
    \/ Restart
    \/ LoadEffect
    \/ SaveEffect
    \/ Render

RestartSpec == Init /\ [][RestartNext]_vars

\* C14: when the value stored at a restart is the save of the list held then,
\* the startup ends with that list held again and its serialization stored.
C14_RoundTrip ==
    (/\ lastCall.op = "restart"
     /\ mount.phase \in {"ready", "crashed"}
     /\ lastCall.holds = "array"
     /\ lastCall.found = saveCart(lastCall.before)) =>
        /\ mount.phase = "ready" /\ mount.holds = "array"
        /\ cartItems = lastCall.before
        /\ storage = saveCart(lastCall.before)

\* A startup just ended with the two lines held before it.
C14_Witness ==
    /\ lastCall.op = "restart" /\ mount.phase = "ready"
    /\ lastCall.found = saveCart(lastCall.before)
    /\ Len(lastCall.before) = 2
    /\ cartItems = lastCall.before
    /\ storage = saveCart(cartItems)

\* C15 as stated: a startup that finds a stored value that is no serialized
\* list ends with an empty cart, no error, and the serialization of the empty
\* list stored.
C15_MalformedDiscarded ==
    (/\ lastCall.op = "restart"
     /\ mount.phase \in {"ready", "crashed"}
     /\ lastCall.found.set /\ lastCall.found.text \in ForeignTexts) =>
        /\ mount.phase = "ready" /\ mount.holds = "array"
        /\ cartItems = <<>>
        /\ storage = saveCart(<<>>)

-----------------------------------------------------------------------------
(* The review routes, ReviewSpec. createProductReview stores no review of its
   own making, so the reviews the routes work on are the ones a seller of the
   product wrote into it through PUT /api/products/:id, whose body is handed
   to findByIdAndUpdate as it is. *)

\* A review as the schema wants it.
Review(id, user, rating, comment) ==
    [_id |-> id, user |-> user, name |-> user, rating |-> rating, comment |-> comment]

\* The review lists a product update carries.
SeedReviews ==
    {<<Review("r1", "u1", 1, "fine")>>,
     <<Review("r1", "s1", MaxRating, "fine")>>,
     <<Review("r1", "u1", 1, "fine"), Review("r2", "s1", MaxRating, "fine")>>}

\* The body of such an update: the reviews with their count and their mean.
SeedBodies ==
    {[reviews |-> reviews, numOfReviews |-> Len(reviews), ratings |-> meanRating(reviews)] :
        reviews \in SeedReviews}

\* req.body.rating and req.body.comment of a review request.
RatingInputs == 1..MaxRating
CommentInputs == {"good", "", Undefined}

\* PUT /api/products/review/:id. req keeps whether the caller had reviewed
\* the product.
CreateProductReview(tok, id, rating, comment) ==
    \E r \in {createProductReview(tok, id, rating, comment, users, products)} :
    /\ products' = r.products
    /\ req' = [op |-> "createProductReview", tok |-> tok, id |-> id,
               rating |-> rating, comment |-> comment,
               reviewed |-> id \in DOMAIN products /\ isReviewed(products[id].reviews, tok)]
    /\ resp' = [status |-> r.status, order |-> NoOrder]
    /\ UNCHANGED <<users, orders, cartVars, calls>>

\* DELETE /api/products/reviews/:id?reviewId=...
DeleteReview(tok, id, reviewId) ==
    \E r \in {deleteReview(tok, id, reviewId, users, products)} :
    /\ products' = r.products
    /\ req' = [op |-> "deleteReview", tok |-> tok, id |-> id, reviewId |-> reviewId,
               removed |-> IF id \in DOMAIN products
                           THEN Len(products[id].reviews) - Len(r.products[id].reviews)
                           ELSE 0]
    /\ resp' = [status |-> r.status, order |-> NoOrder]
    /\ UNCHANGED <<users, orders, cartVars, calls>>

ReviewNext ==
    \/ \E body \in SeedBodies : UpdateProduct("s1", "p1", body)
    \/ \E tok \in {"u1", "s1", "a1"}, rating \in RatingInputs, comment \in CommentInputs :
            CreateProductReview(tok, "p1", rating, comment)
    \/ \E tok \in Strangers : CreateProductReview(tok, "p1", 1, "good")
    \/ \E id \in {"p3", BadId} : CreateProductReview("u1", id, 1, "good")
    \/ \E tok \in {"u1", "a1"}, reviewId \in {"r1", "r2", "r3", Undefined} :
            DeleteReview(tok, "p1", reviewId)
    \/ \E tok \in Strangers : DeleteReview(tok, "p1", "r1")
    \/ \E id \in {"p3", BadId} : DeleteReview("u1", id, "r1")

ReviewSpec == Init /\ [][ReviewNext]_vars

\* The reviews of other users, in their order.
reviewsOfOthers(reviews, user) ==
    SelectSeq(reviews, LAMBDA review : review.user # user)

\* C16 as stated: after a review request of an existing user on an existing
\* product, with a rating and a comment, the product holds exactly one review
\* by that user, with that rating and comment; the reviews of other users are
\* as they were; a first review makes the list one longer, a repeated one
\* leaves its length.
C16_OneReviewPerUser ==
    [][(/\ req'.op = "createProductReview"
        /\ req'.tok \in DOMAIN users
        /\ req'.id \in DOMAIN products
        /\ req'.comment = "good") =>
        LET before == products[req'.id].reviews
            after  == products'[req'.id].reviews
            mine   == {i \in 1..Len(after) : after[i].user = req'.tok}
        IN /\ Cardinality(mine) = 1
           /\ \A i \in mine : after[i].rating = req'.rating
                              /\ after[i].comment = req'.comment
           /\ reviewsOfOthers(after, req'.tok) = reviewsOfOthers(before, req'.tok)
           /\ Len(after) = IF req'.reviewed THEN Len(before) ELSE Len(before) + 1]_vars

\* C17: numOfReviews of every product is the number of its reviews.
C17_CountIsLength ==
    \A p \in DOMAIN products : products[p].numOfReviews = Len(products[p].reviews)

\* deleteReview just removed the first of two reviews, and the count is 1.
C17_Witness ==
    /\ req.op = "deleteReview" /\ resp.status = 200 /\ req.removed = 1
    /\ Len(products["p1"].reviews) = 1
    /\ products["p1"].numOfReviews = 1

\* The sum of the ratings, from the last review back.
RECURSIVE ratingTotal(_)
ratingTotal(reviews) ==
    IF reviews = <<>> THEN 0
    ELSE ratingTotal(SubSeq(reviews, 1, Len(reviews) - 1)) + reviews[Len(reviews)].rating

\* C18: ratings of every product is 0 when it has no review, and otherwise a
\* number that, times the number of reviews, gives the sum of their ratings.
C18_RatingsIsMean ==
    \A p \in DOMAIN products :
        /\ products[p].ratings.den # 0
        /\ IF products[p].reviews = <<>>
           THEN products[p].ratings.num = 0
           ELSE products[p].ratings.num * Len(products[p].reviews)
                  = ratingTotal(products[p].reviews) * products[p].ratings.den

\* deleteReview just removed the only review of the product, and ratings is 0.
C18_Witness ==
    /\ req.op = "deleteReview" /\ resp.status = 200 /\ req.removed = 1
    /\ products["p1"].reviews = <<>>
    /\ products["p1"].ratings = Zero

-----------------------------------------------------------------------------
(* The role-gated routes, GateSpec: product create, update and delete, the
   admin lists, the admin status update of an order and the admin routes on
   users, called by every kind of caller. *)

ProductBody(name, price, images) ==
    [name |-> name, description |-> "d", price |-> price, category |-> "c",
     images |-> images]

\* Bodies of a product creation: a complete one, and ones without a name,
\* without a price, without images.
NewProductBodies ==
    {ProductBody("n", 2, <<"i">>), ProductBody(Undefined, 2, <<"i">>),
     ProductBody("n", 0, <<"i">>), ProductBody("n", 2, <<>>)}

\* POST /api/products/new. The model creates one product.
CreateProduct(tok, body) ==
    \E r \in {createProduct(tok, body, users, products)} :
    /\ newProductId(products) \notin DOMAIN products
    /\ products' = r.products
    /\ req' = [op |-> "createProduct", tok |-> tok, id |-> newProductId(products)]
    /\ resp' = [status |-> r.status, order |-> NoOrder]
    /\ UNCHANGED <<users, orders, cartVars, calls>>

\* DELETE /api/products/:id
DeleteProduct(tok, id) ==
    \E r \in {deleteProduct(tok, id, users, products)} :
    /\ products' = r.products
    /\ req' = [op |-> "deleteProduct", tok |-> tok, id |-> id]
    /\ resp' = [status |-> r.status, order |-> NoOrder]
    /\ UNCHANGED <<users, orders, cartVars, calls>>

\* PUT /api/users/admin/:id
UpdateUser(tok, id, body) ==
    \E r \in {updateUser(tok, id, body, users)} :
    /\ users' = r.users
    /\ req' = [op |-> "updateUser", tok |-> tok, id |-> id]
    /\ resp' = [status |-> r.status, order |-> NoOrder]
    /\ UNCHANGED <<products, orders, cartVars, calls>>

\* DELETE /api/users/admin/:id
DeleteUser(tok, id) ==
    \E r \in {deleteUser(tok, id, users)} :
    /\ users' = r.users
    /\ req' = [op |-> "deleteUser", tok |-> tok, id |-> id]
    /\ resp' = [status |-> r.status, order |-> NoOrder]
    /\ UNCHANGED <<products, orders, cartVars, calls>>

\* GET /api/orders/admin/all, GET /api/users/admin/all
AdminList(tok, what) ==
    /\ req' = [op |-> what, tok |-> tok]
    /\ resp' = [status |-> adminList(tok, users), order |-> NoOrder]
    /\ UNCHANGED <<users, products, orders, cartVars, calls>>

\* GET /api/orders/:id
GetSingleOrder(tok, id) ==
    /\ req' = [op |-> "getSingleOrder", tok |-> tok, id |-> id]
    /\ resp' = getSingleOrder(tok, id, users, orders)
    /\ UNCHANGED <<users, products, orders, cartVars, calls>>

\* Every kind of caller: no token, a bad token, a user that never was, and the
\* three users, whatever became of them.
Callers == Strangers \cup {"u1", "s1", "a1"}

GateNext ==
    \/ NewOrder("u1", SomeOrderBody)
    \/ \E tok \in Callers, body \in NewProductBodies : CreateProduct(tok, body)
    \/ \E tok \in Callers : UpdateProduct(tok, "p1", [price |-> 3])
    \/ \E tok \in Callers, id \in {"p1", "p3"} : DeleteProduct(tok, id)
    \/ \E tok \in Callers : UpdateOrderStatus(tok, "o1", "Delivered", 1)
    \/ \E tok \in Callers, role \in {"seller", "owner"} :
            UpdateUser(tok, "u1", [role |-> role])
    \/ \E tok \in Callers, id \in {"u1", "a1"} : DeleteUser(tok, id)
    \/ \E tok \in Callers, what \in {"adminOrders", "adminUsers"} : AdminList(tok, what)
    \/ \E tok \in Callers, id \in {"o1", "o2", BadId} : GetSingleOrder(tok, id)

GateSpec == Init /\ [][GateNext]_vars

\* The roles each gated route lets in.
GatedOps ==
    {"createProduct", "updateProduct", "deleteProduct", "updateOrderStatus",
     "adminOrders", "adminUsers", "updateUser", "deleteUser"}

AllowedRoles(op) ==
    IF op \in {"createProduct", "updateProduct", "deleteProduct"}
    THEN {"seller", "admin"}
    ELSE {"admin"}

\* C19: a request to a gated route from a caller without a token of an
\* existing user is answered 401, one from a user whose role the route does
\* not allow is answered 403, and neither changes a user, a product or an
\* order; so whenever such a request changes one, its caller is an existing
\* user with an allowed role.
C19_RoleGate ==
    [][req'.op \in GatedOps =>
        /\ req'.tok \notin DOMAIN users =>
              (resp'.status = 401 /\ UNCHANGED <<users, products, orders>>)
        /\ (req'.tok \in DOMAIN users
              /\ users[req'.tok].role \notin AllowedRoles(req'.op)) =>
              (resp'.status = 403 /\ UNCHANGED <<users, products, orders>>)
        /\ <<users, products, orders>>' # <<users, products, orders>> =>
              (req'.tok \in DOMAIN users
                 /\ users[req'.tok].role \in AllowedRoles(req'.op))]_vars

\* A seller just asked for the deletion of a user and was answered 403, the
\* user still there.
C19_Witness ==
    /\ req.op = "deleteUser" /\ req.tok = "s1" /\ req.id = "u1"
    /\ "s1" \in DOMAIN users /\ users["s1"].role = "seller"
    /\ resp.status = 403
    /\ "u1" \in DOMAIN users

\* C20: an update or a delete request for a product from a seller who is not
\* the seller recorded on it is answered 403 and changes no product; whenever
\* such a request changes a product, its caller is the seller recorded on the
\* product or an admin.
C20_OwnerOrAdmin ==
    [][(req'.op \in {"updateProduct", "deleteProduct"} /\ req'.id \in DOMAIN products) =>
        /\ (/\ req'.tok \in DOMAIN users
            /\ users[req'.tok].role = "seller"
            /\ products[req'.id].seller # req'.tok) =>
              (resp'.status = 403 /\ products' = products)
        /\ products' # products =>
              /\ req'.tok \in DOMAIN users
              /\ \/ products[req'.id].seller = req'.tok
                 \/ users[req'.tok].role = "admin"]_vars

\* A seller just asked for the deletion of another seller's product and was
\* answered 403, the product still there.
C20_Witness ==
    /\ req.op = "deleteProduct" /\ req.tok = "u1" /\ req.id = "p1"
    /\ "u1" \in DOMAIN users /\ users["u1"].role = "seller"
    /\ "p1" \in DOMAIN products /\ products["p1"].seller = "s1"
    /\ resp.status = 403

\* C25 as stated: a request for a stored order by an authenticated user who
\* is neither its owner nor an admin is answered 403 and carries no order.
C25_OwnerOrAdminReads ==
    [][(/\ req'.op = "getSingleOrder"
        /\ req'.id \in DOMAIN orders
        /\ req'.tok \in DOMAIN users
        /\ orders[req'.id].user # req'.tok
        /\ users[req'.tok].role # "admin") =>
        (resp'.status = 403 /\ resp'.order = NoOrder)]_vars

-----------------------------------------------------------------------------
(* Failures of the database under the route handlers, FaultSpec: a call of the
   database made by a handler rejects, and the catch block of the handler
   answers. *)

\* Errors the driver rejects a query with.
DatabaseErrors ==
    {[name |-> "MongoNetworkError",
      message |-> "connect ECONNREFUSED 10.0.3.7:27017"],
     [name |-> "MongooseError",
      message |-> "Operation orders.findOne() buffering timed out after 10000ms"]}

\* Routes of orders, products and users: the roles the route lets in and the
\* message of its catch block.
FailingRoutes ==
    {[op |-> "newOrder", roles |-> Roles, message |-> "Error creating order"],
     [op |-> "updateOrderStatus", roles |-> {"admin"}, message |-> "Error updating order"],
     [op |-> "createProductReview", roles |-> Roles, message |-> "Error creating review"],
     [op |-> "updateProduct", roles |-> {"seller", "admin"}, message |-> "Error updating product"],
     [op |-> "deleteUser", roles |-> {"admin"}, message |-> "Error deleting user"]}

\* A request let in by the middleware whose first query is rejected with
\* error: nothing was written, and the catch block answers.
RouteFailure(route, tok, error) ==
    /\ isAuthenticatedUser(tok, users) = 0
    /\ authorizeRoles(route.roles, tok, users) = 0
    /\ req' = [op |-> route.op, tok |-> tok, message |-> route.message,
               thrown |-> error]
    /\ resp' = catchResponse(route.message, error)
    /\ UNCHANGED <<users, products, orders, cartVars, calls>>

FaultNext ==
    \/ NewOrder("u1", SomeOrderBody)
    \/ \E status \in OrderStatuses : UpdateOrderStatus("a1", "o1", status, 1)
    \/ \E route \in FailingRoutes, tok \in Callers, error \in DatabaseErrors :
            RouteFailure(route, tok, error)

FaultSpec == Init /\ [][FaultNext]_vars

\* C21 as stated: the response to a request that ended in an unclassified
\* failure is the one the handler gives for any other internal error: it does
\* not depend on the error that was thrown.
C21_GenericFailure ==
    [][("thrown" \in DOMAIN req') =>
        \A other \in DatabaseErrors :
            resp' = catchResponse(req'.message, other)]_vars

-----------------------------------------------------------------------------
(* The checkout page over the cart and the order route, CheckoutSpec.
   handleSubmit runs up to its await of the POST, which the server handles;
   the rest of it runs when the response is there. The page offers no cart
   call while it awaits. *)

GoodForm == [f \in FormFields |-> "a"]

\* The form filled in, and with a field left empty or blank: one the order
\* schema knows, one it does not.
Forms ==
    {GoodForm}
    \cup {[GoodForm EXCEPT ![f] = v] : f \in {"city", "fullName"}, v \in {"", " "}}

Awaiting == lastCall.op = "handleSubmit" /\ lastCall.outcome = "awaiting"

\* handleSubmit up to the await, and the POST it sends handled by the server.
\* A request that would store an order when the model's order identifiers are
\* used up is not sent.
HandleSubmit(tok, shippingInfo) ==
    \E outcome \in {beforeOrder(cartItems, shippingInfo)} :
    /\ lastCall' = [op |-> "handleSubmit", outcome |-> outcome]
    /\ IF outcome # "awaiting"
       THEN UNCHANGED <<backendVars, cartItems, storage, mount>>
       ELSE \E body \in {checkoutBody(cartItems, shippingInfo)} :
            \E r \in {newOrder(tok, body, users, products, orders)} :
            /\ r.orders # orders => newOrderId(orders) \in SpecOrderIds \ DOMAIN orders
            /\ orders' = r.orders
            /\ products' = r.products
            /\ req' = [op |-> "newOrder", tok |-> tok,
                       emptyFields |-> emptyFields(body),
                       firstBadLine |-> firstBadLine(body.orderItems, products),
                       firstBadId |-> firstBadId(body.orderItems, products)]
            /\ resp' = [status |-> r.status, order |-> r.order]
            /\ UNCHANGED <<users, calls, cartItems, storage, mount>>

\* handleSubmit after the await: clearCart() when the POST resolved, the catch
\* block when it rejected; the save effect follows a change of the cart.
OrderResponse ==
    /\ Awaiting
    /\ cartItems' = afterOrder(resp.status, cartItems)
    /\ storage' = IF resp.status \in 200..299 THEN saveCart(cartItems') ELSE storage
    /\ lastCall' = [op |-> "handleSubmit",
                    outcome |-> IF resp.status \in 200..299 THEN "placed" ELSE "failed"]
    /\ UNCHANGED <<backendVars, mount>>

CheckoutNext ==
    \/ ~Awaiting /\ \E product \in RestartProducts, quantity \in RestartQuantities :
                        AddToCart(product, quantity)
    \/ ~Awaiting /\ \E productId \in DOMAIN InitProducts : RemoveFromCart(productId)
    \/ ~Awaiting /\ \E tok \in {"u1", NoToken}, shippingInfo \in Forms :
                        HandleSubmit(tok, shippingInfo)
    \/ OrderResponse

CheckoutSpec == Init /\ [][CheckoutNext]_vars

\* C26: handleSubmit clears the cart only when the order request it awaited
\* was answered with success and the order is stored; when the form is
\* invalid, the cart is empty or the request failed, and while the request is
\* awaited, the cart and its stored copy stay as they were.
C26_ClearedAfterSuccess ==
    [][lastCall'.op = "handleSubmit" =>
        IF lastCall'.outcome = "placed"
        THEN /\ Awaiting
             /\ resp.status = 201 /\ resp.order \in DOMAIN orders
             /\ cartItems' = <<>>
        ELSE cartItems' = cartItems /\ storage' = storage]_vars

\* A checkout has just failed on the server and left a cart of two lines, after
\* an earlier checkout had stored an order and cleared the cart.
C26_Witness ==
    /\ lastCall.op = "handleSubmit" /\ lastCall.outcome = "failed"
    /\ resp.status = 500
    /\ Len(cartItems) = 2
    /\ orders # NoOrders

-----------------------------------------------------------------------------
(* The order routes with two requests in flight, RaceSpec. A handler runs
   from one await to the next in a step; the steps of two handlers interleave.
   req and resp are those of the request answered last. Users check out and
   the admin marks orders delivered, one request per order at a time. *)

\* The bodies of the checkouts: one unit of p1, alone and with a unit of p2.
RaceBodies ==
    {OrderBody(<<OrderLine("p1", 1, StalePrice)>>, GoodShipping, StalePrice),
     OrderBody(<<OrderLine("p1", 1, StalePrice), OrderLine("p2", 1, StalePrice)>>,
               GoodShipping, StalePrice)}

\* The handlers at work on a route, and on an order.
atWork(op) == {h \in Handlers : calls[h] # Idle /\ calls[h].op = op}
atWorkOn(id) == {h \in atWork("updateOrderStatus") : calls[h].id = id}

\* res.status(...).json(...) of handler h: the response goes out and the
\* handler is done.
Respond(h, call, status, order) ==
    /\ req' = [op |-> call.op, tok |-> call.tok, handler |-> h]
    /\ resp' = [status |-> status, order |-> order]
    /\ calls' = [calls EXCEPT ![h] = Idle]

\* POST /api/orders/new arrives: the middleware and the validation chain run,
\* and the handler enters its loop. A request that would need an order
\* identifier the model does not have is not sent.
ReceiveNewOrder(h, tok, body) ==
    /\ calls[h] = Idle
    /\ Cardinality(DOMAIN orders) + Cardinality(atWork("newOrder")) < Cardinality(OrderIds)
    /\ \E call \in {[op |-> "newOrder", tok |-> tok, body |-> body, pc |-> "findProduct",
                     items |-> body.orderItems, totalAmount |-> 0]} :
         IF isAuthenticatedUser(tok, users) # 0
         THEN Respond(h, call, isAuthenticatedUser(tok, users), NoOrder)
         ELSE IF validationResult(body) # {}
         THEN Respond(h, call, 400, NoOrder)
         ELSE /\ calls' = [calls EXCEPT ![h] = call]
              /\ UNCHANGED <<req, resp>>
    /\ UNCHANGED <<users, products, orders, cartVars>>

\* One turn of the loop: await Product.findById(item.product) and the sum.
FindProduct(h) ==
    /\ calls[h] # Idle /\ calls[h].pc = "findProduct"
    /\ \E call \in {calls[h]} :
       \E r \in {calculateTotal(<<Head(call.items)>>, products, call.totalAmount)} :
         IF r.status # 0
         THEN Respond(h, call, r.status, NoOrder)
         ELSE /\ calls' = [calls EXCEPT ![h] =
                            [call EXCEPT !.items = Tail(call.items),
                                         !.totalAmount = r.totalAmount,
                                         !.pc = IF Tail(call.items) = <<>>
                                                THEN "create" ELSE "findProduct"]]
              /\ UNCHANGED <<req, resp>>
    /\ UNCHANGED <<users, products, orders, cartVars>>

\* await Order.create(...) and the response.
CreateOrder(h) ==
    /\ calls[h] # Idle /\ calls[h].pc = "create"
    /\ \E call \in {calls[h]} :
       \E r \in {createOrder(call.body, call.totalAmount, call.tok, products, orders)} :
         /\ orders' = r.orders
         /\ products' = r.products
         /\ Respond(h, call, r.status, r.order)
    /\ UNCHANGED <<users, cartVars>>

\* PUT /api/orders/admin/:id arrives: the middleware runs and the handler
\* starts. No request is sent for an order another request is at work on.
ReceiveUpdate(h, tok, id, status, now) ==
    /\ calls[h] = Idle
    /\ atWorkOn(id) = {}
    /\ \E call \in {[op |-> "updateOrderStatus", tok |-> tok, id |-> id,
                     status |-> status, now |-> now, pc |-> "findOrder"]} :
         IF isAuthenticatedUser(tok, users) # 0
         THEN Respond(h, call, isAuthenticatedUser(tok, users), NoOrder)
         ELSE IF authorizeRoles({"admin"}, tok, users) # 0
         THEN Respond(h, call, 403, NoOrder)
         ELSE /\ calls' = [calls EXCEPT ![h] = call]
              /\ UNCHANGED <<req, resp>>
    /\ UNCHANGED <<users, products, orders, cartVars>>

\* await Order.findById(req.params.id) and the two early returns.
FindOrder(h) ==
    /\ calls[h] # Idle /\ calls[h].pc = "findOrder"
    /\ \E call \in {calls[h]} :
         IF call.id = BadId THEN Respond(h, call, 500, NoOrder)
         ELSE IF call.id \notin DOMAIN orders THEN Respond(h, call, 404, NoOrder)
         ELSE IF alreadyDelivered(orders[call.id]) THEN Respond(h, call, 400, NoOrder)
         ELSE /\ calls' = [calls EXCEPT ![h] =
                            [op |-> call.op, tok |-> call.tok, id |-> call.id,
                             status |-> call.status, now |-> call.now,
                             pc |-> "findStock",
                             items |-> orders[call.id].orderItems]]
              /\ UNCHANGED <<req, resp>>
    /\ UNCHANGED <<users, products, orders, cartVars>>

\* updateStock, its first await: Product.findById(productId). The handler
\* holds the document it read; a product that is gone is passed over.
FindStock(h) ==
    /\ calls[h] # Idle /\ calls[h].pc = "findStock"
    /\ \E call \in {calls[h]} :
       \E item \in {Head(call.items)} :
         calls' = [calls EXCEPT ![h] =
            IF item.product \in DOMAIN products
            THEN [op |-> call.op, tok |-> call.tok, id |-> call.id,
                  status |-> call.status, now |-> call.now,
                  pc |-> "saveStock", items |-> call.items,
                  product |-> products[item.product]]
            ELSE [call EXCEPT !.items = Tail(call.items),
                              !.pc = IF Tail(call.items) = <<>>
                                     THEN "saveOrder" ELSE "findStock"]]
    /\ UNCHANGED <<users, products, orders, req, resp, cartVars>>

\* updateStock, its second await: the stock of the document the handler holds
\* is lowered and product.save() writes it. A write below -MaxDebt is not
\* followed.
SaveStock(h) ==
    /\ calls[h] # Idle /\ calls[h].pc = "saveStock"
    /\ \E call \in {calls[h]} :
       \E item \in {Head(call.items)} :
         /\ call.product.stock - item.quantity >= -MaxDebt
         /\ products' = updateStock([products EXCEPT ![item.product].stock = call.product.stock],
                                    item.product, item.quantity)
         /\ calls' = [calls EXCEPT ![h] =
                        [op |-> call.op, tok |-> call.tok, id |-> call.id,
                         status |-> call.status, now |-> call.now,
                         pc |-> IF Tail(call.items) = <<>>
                                THEN "saveOrder" ELSE "findStock",
                         items |-> Tail(call.items)]]
    /\ UNCHANGED <<users, orders, req, resp, cartVars>>

\* The new status, await order.save() and the response.
SaveOrder(h) ==
    /\ calls[h] # Idle /\ calls[h].pc = "saveOrder"
    /\ \E call \in {calls[h]} :
       \E order \in {withStatus(orders[call.id], call.status, call.now)} :
         IF ~orderSchemaValid(order)
         THEN /\ Respond(h, call, 500, NoOrder)
              /\ UNCHANGED orders
         ELSE /\ orders' = [orders EXCEPT ![call.id] = order]
              /\ Respond(h, call, 200, call.id)
    /\ UNCHANGED <<users, products, cartVars>>

RaceNext ==
    \/ \E h \in Handlers, body \in RaceBodies : ReceiveNewOrder(h, "u1", body)
    \/ \E h \in Handlers, id \in OrderIds : ReceiveUpdate(h, "a1", id, "Delivered", 1)
    \/ \E h \in Handlers : FindProduct(h)
    \/ \E h \in Handlers : CreateOrder(h)
    \/ \E h \in Handlers : FindOrder(h)
    \/ \E h \in Handlers : FindStock(h)
    \/ \E h \in Handlers : SaveStock(h)
    \/ \E h \in Handlers : SaveOrder(h)

RaceSpec == Init /\ [][RaceNext]_vars

\* C23: a checkout whose lines name products is answered 201 and stores a new
\* order with status Processing, whatever the stock of the products and
\* whatever other checkouts came before it or run beside it; it writes no
\* product.
C23_NoReservation ==
    [][\A h \in Handlers :
          (calls[h] # Idle /\ calls[h].pc = "create" /\ calls'[h] = Idle) =>
              /\ resp'.status = 201
              /\ resp'.order \in DOMAIN orders' \ DOMAIN orders
              /\ orders'[resp'.order].orderStatus = "Processing"
              /\ products' = products]_vars

\* Two orders of one unit of p1 each are stored with status Processing while
\* p1 has one unit of stock, the second answered while no request is in
\* flight any more.
C23_Witness ==
    /\ DOMAIN orders = OrderIds
    /\ \A o \in OrderIds :
          /\ orders[o].orderItems = <<[product |-> "p1", quantity |-> 1]>>
          /\ orders[o].orderStatus = "Processing"
    /\ products["p1"].stock = 1
    /\ req.op = "newOrder" /\ resp.status = 201
    /\ calls = NoCalls

\* C30 as stated: once two status updates on the two orders have both been
\* answered, whatever the interleaving of their reads and writes, the stock of
\* every product is its stock at the start less the quantities of both orders.
C30_NoLostDecrement ==
    (/\ calls = NoCalls
     /\ DOMAIN orders = OrderIds
     /\ \A o \in OrderIds : orders[o].orderStatus = "Delivered") =>
        \A p \in DOMAIN products :
            products[p].stock =
                InitProducts[p].stock - quantityOf(orders["o1"].orderItems, p)
                                      - quantityOf(orders["o2"].orderItems, p)

====
